---- MODULE Spec2Model ----
(***************************************************************************)
(* Model of the LandMarking AI inference core:                             *)
(*   - the lazily loaded model handles (load_model in boundary_detection   *)
(*     and land_use),                                                      *)
(*   - the polygon refiner (refine_polygon),                               *)
(*   - the land-use scorer (detect_land_use),                              *)
(*   - the polygon synthesizer (generate_realistic_polygon),               *)
(*   - the three request handlers of the API (main.py).                    *)
(* Each component has its own specification over the shared variables.     *)
(* Floating point values are modelled in fixed point: confidences in       *)
(* units of 1/One, coordinates as integers on a grid.                      *)
(***************************************************************************)
EXTENDS Integers, Sequences, FiniteSets, TLC

\* ------------------------------------------------------------------ bounds
NumThreads == 2      \* request threads calling load_model concurrently
MaxFails == 2        \* load failures injected per run
MaxPoints == 5       \* total number of points of an input geometry
MaxRings == 2        \* rings of an input geometry
MaxApiPoints == 3    \* total number of points of a geometry sent to improve-boundary

VARIABLES
    \* model handles, one per module (kind)
    MODEL, MODEL_LOADED,
    pc, kind, loads, fails,
    \* refine_polygon
    rpc, geometry, ringIdx, improved_ring, improved_rings, todo, improved,
    inserted, rexc,
    \* detect_land_use
    lpc, primary_idx, viaWeighted, primary_confidence, alternative_categories,
    remaining_confidence, drawn, alternatives,
    \* generate_realistic_polygon
    gpc, radius_m, num_points, coords, polygon,
    \* the request handlers of the API
    apc, op, request, exc, responses

loadVars == <<MODEL, MODEL_LOADED, pc, kind, loads, fails>>
refineVars == <<rpc, geometry, ringIdx, improved_ring, improved_rings, todo, improved,
                inserted, rexc>>
landVars == <<lpc, primary_idx, viaWeighted, primary_confidence, alternative_categories,
              remaining_confidence, drawn, alternatives>>
genVars == <<gpc, radius_m, num_points, coords, polygon>>
apiVars == <<apc, op, request, exc, responses>>
vars == <<loadVars, refineVars, landVars, genVars, apiVars>>

None == "None"

\* ============================================================ model handle
\* The two modules hold the same globals and the same load_model.
Kinds == {"boundary", "land_use"}
Threads == 1..NumThreads

InitLoad ==
    /\ MODEL = [k \in Kinds |-> None]
    /\ MODEL_LOADED = [k \in Kinds |-> FALSE]
    /\ pc = [t \in Threads |-> "idle"]
    /\ kind = [t \in Threads |-> "boundary"]
    /\ loads = [k \in Kinds |-> 0]
    /\ fails = 0

\* A request enters load_model of one of the two modules.
CallLoad(t) ==
    /\ pc[t] = "idle"
    /\ \E k \in Kinds : kind' = [kind EXCEPT ![t] = k]
    /\ pc' = [pc EXCEPT ![t] = "check"]
    /\ UNCHANGED <<MODEL, MODEL_LOADED, loads, fails>>
    /\ UNCHANGED <<refineVars, landVars, genVars, apiVars>>

\* if MODEL_LOADED: return     ("noop" is the return of line 29)
CheckLoaded_NoGuard(t) ==
    /\ pc[t] = "check"
    /\ pc' = [pc EXCEPT ![t] = "loading"]
    /\ UNCHANGED <<MODEL, MODEL_LOADED, kind, loads, fails>>
    /\ UNCHANGED <<refineVars, landVars, genVars, apiVars>>

CheckLoaded(t) ==
    /\ pc[t] = "check"
    /\ pc' = [pc EXCEPT ![t] = IF MODEL_LOADED[kind[t]] THEN "noop" ELSE "loading"]
    /\ UNCHANGED <<MODEL, MODEL_LOADED, kind, loads, fails>>
    /\ UNCHANGED <<refineVars, landVars, genVars, apiVars>>

\* time.sleep(0.5); MODEL = "simulation"  -- the load operation completes
SetModel(t) ==
    /\ pc[t] = "loading"
    /\ MODEL' = [MODEL EXCEPT ![kind[t]] = "simulation"]
    /\ loads' = [loads EXCEPT ![kind[t]] = @ + 1]
    /\ pc' = [pc EXCEPT ![t] = "commit"]
    /\ UNCHANGED <<MODEL_LOADED, kind, fails>>
    /\ UNCHANGED <<refineVars, landVars, genVars, apiVars>>

\* the load operation raises: the exception leaves load_model before line 36
LoadFail_MarksLoaded(t) ==
    /\ pc[t] = "loading"
    /\ fails < MaxFails
    /\ fails' = fails + 1
    /\ MODEL_LOADED' = [MODEL_LOADED EXCEPT ![kind[t]] = TRUE]
    /\ pc' = [pc EXCEPT ![t] = "failed"]
    /\ UNCHANGED <<MODEL, kind, loads>>
    /\ UNCHANGED <<refineVars, landVars, genVars, apiVars>>

LoadFail(t) ==
    /\ pc[t] = "loading"
    /\ fails < MaxFails
    /\ fails' = fails + 1
    /\ pc' = [pc EXCEPT ![t] = "failed"]
    /\ UNCHANGED <<MODEL, MODEL_LOADED, kind, loads>>
    /\ UNCHANGED <<refineVars, landVars, genVars, apiVars>>

\* MODEL_LOADED = True          ("loaded" is the end of load_model)
CommitLoaded(t) ==
    /\ pc[t] = "commit"
    /\ MODEL_LOADED' = [MODEL_LOADED EXCEPT ![kind[t]] = TRUE]
    /\ pc' = [pc EXCEPT ![t] = "loaded"]
    /\ UNCHANGED <<MODEL, kind, loads, fails>>
    /\ UNCHANGED <<refineVars, landVars, genVars, apiVars>>

\* the request ends (with a result or with the failure); the thread serves the next one
EndRequest(t) ==
    /\ pc[t] \in {"noop", "loaded", "failed"}
    /\ pc' = [pc EXCEPT ![t] = "idle"]
    /\ UNCHANGED <<MODEL, MODEL_LOADED, kind, loads, fails>>
    /\ UNCHANGED <<refineVars, landVars, genVars, apiVars>>


LoadNext ==
    \E t \in Threads :
        \/ CallLoad(t)
        \/ CheckLoaded(t)
        \/ SetModel(t)
        \/ LoadFail(t)
        \/ CommitLoaded(t)
        \/ EndRequest(t)

\* ========================================================== refine_polygon
\* Coordinates are integers on a grid; a point is <<lon, lat>>.
Pts == {<<0, 0>>, <<4, 2>>}
\* (random.random() - 0.5) * adjustment, for both coordinates of a vertex
Adjustments == {<<0, 0>>, <<1, -1>>}
\* (random.random() - 0.5) * 0.00005, for both coordinates of a new point
Offsets == {<<0, 0>>, <<-1, 1>>}
\* if len(ring) < 20
DensifyLimit == 20

Types == {"Polygon", "MultiLineString"}

\* rings of at most p points
RingSet(p) == UNION {[1..n -> Pts] : n \in 0..p}

\* lists of at most m rings with at most p points in all
RECURSIVE CoordinateSet(_, _)
CoordinateSet(m, p) ==
    IF m = 0 THEN {<<>>}
    ELSE {<<>>} \cup
         UNION {{<<ring>> \o rest : rest \in CoordinateSet(m - 1, p - Len(ring))} :
                    ring \in RingSet(p)}

\* a closed ring that is too long to be densified
LongRing ==
    [i \in 1..DensifyLimit |-> IF i = 1 \/ i = DensifyLimit THEN <<0, 0>> ELSE <<4, 2>>]

\* class Geometry: type, coordinates
Geometry ==
    [type : Types, coordinates : CoordinateSet(MaxRings, MaxPoints) \cup {<<LongRing>>}]

InitRefine ==
    /\ rpc = "idle"
    /\ geometry = [type |-> "Polygon", coordinates |-> <<>>]
    /\ ringIdx = 0
    /\ improved_ring = <<>>
    /\ improved_rings = <<>>
    /\ todo = 0
    /\ improved = [type |-> "Polygon", coordinates |-> <<>>]
    /\ inserted = <<>>
    /\ rexc = None

\* if geometry.type == "Polygon"
IsPolygon_Always(g) == TRUE

IsPolygon(g) == g.type = "Polygon"

\* the body of the loop over enumerate(ring); i is the 0-based index, n = len(ring)
RefinePoint_All(i, n, point, adj) == <<point[1] + adj[1], point[2] + adj[2]>>

RefinePoint(i, n, point, adj) ==
    IF i = 0 \/ i = n - 1
    THEN point
    ELSE <<point[1] + adj[1], point[2] + adj[2]>>

\* the loop over enumerate(ring): improved_ring after it, adj[i] the draw for point i
RefinedRing_SkipEnds(ring, adj) ==
    [i \in 1..(IF Len(ring) >= 2 THEN Len(ring) - 2 ELSE 0) |->
        RefinePoint(i, Len(ring), ring[i + 1], adj[i + 1])]

RefinedRing(ring, adj) ==
    [i \in 1..Len(ring) |-> RefinePoint(i - 1, Len(ring), ring[i], adj[i])]

\* improved_ring.insert(insert_idx + 1, new_point): the index the new point gets
InsertPosition_After(insert_idx) == insert_idx + 2

InsertPosition(insert_idx) == insert_idx + 1

\* new_point between a and b
NewPoint(a, b, off) ==
    <<(a[1] + b[1]) \div 2 + off[1], (a[2] + b[2]) \div 2 + off[2]>>

\* list.insert(k, x), k a 0-based index with 0 <= k <= len(s)
ListInsert(s, k, x) == SubSeq(s, 1, k) \o <<x>> \o SubSeq(s, k + 1, Len(s))

\* if improved_ring[0] != improved_ring[-1]: improved_ring.append(improved_ring[0].copy())
CloseRing_Skip(ring) == ring

CloseRing(ring) ==
    IF ring[1] # ring[Len(ring)] THEN Append(ring, ring[1]) ELSE ring

\* refine_polygon(g) is entered; the non-Polygon branch returns at once
RefineEnter(g) ==
    /\ rpc = "idle"
    /\ geometry' = g
    /\ IF IsPolygon(g)
       THEN /\ improved' = [type |-> g.type, coordinates |-> <<>>]
            /\ ringIdx' = 1
            /\ rpc' = "ring"
       ELSE /\ improved' = [type |-> g.type, coordinates |-> g.coordinates]
            /\ ringIdx' = 0
            /\ rpc' = "returned"
    /\ improved_rings' = <<>>
    /\ improved_ring' = <<>>
    /\ todo' = 0
    /\ inserted' = <<>>
    /\ rexc' = None

\* a call of refine_polygon with any geometry
RefineCall ==
    /\ rpc = "idle"
    /\ \E g \in Geometry : RefineEnter(g)
    /\ UNCHANGED <<loadVars, landVars, genVars, apiVars>>

\* one iteration of "for ring in geometry.coordinates": the loop over the
\* points, and the draw of the number of points to add
RefineRing ==
    /\ rpc = "ring"
    /\ ringIdx <= Len(geometry.coordinates)
    /\ LET ring == geometry.coordinates[ringIdx] IN
        /\ \E adj \in [1..Len(ring) -> Adjustments] :
             improved_ring' = RefinedRing(ring, adj)
        /\ \E n \in (IF Len(ring) < DensifyLimit THEN 0..2 ELSE {0}) : todo' = n
    /\ inserted' = Append(inserted, <<>>)
    /\ rpc' = "insert"
    /\ UNCHANGED <<geometry, ringIdx, improved_rings, improved, rexc>>
    /\ UNCHANGED <<loadVars, landVars, genVars, apiVars>>

\* one iteration of "for _ in range(random.randint(0, 2))"
InsertPoint ==
    /\ rpc = "insert"
    /\ todo > 0
    /\ Len(improved_ring) - 2 >= 1
    /\ \E insert_idx \in 1..(Len(improved_ring) - 2), off \in Offsets :
        LET a == improved_ring[insert_idx + 1]
            b == improved_ring[insert_idx + 2]
        IN /\ improved_ring' =
                ListInsert(improved_ring, InsertPosition(insert_idx), NewPoint(a, b, off))
           /\ inserted' = [inserted EXCEPT ![ringIdx] = Append(@, InsertPosition(insert_idx))]
    /\ todo' = todo - 1
    /\ UNCHANGED <<rpc, geometry, ringIdx, improved_rings, improved, rexc>>
    /\ UNCHANGED <<loadVars, landVars, genVars, apiVars>>

\* random.randint(1, len(improved_ring) - 2) on an empty range: ValueError
InsertRaise ==
    /\ rpc = "insert"
    /\ todo > 0
    /\ Len(improved_ring) - 2 < 1
    /\ rpc' = "raised"
    /\ rexc' = "empty range for randrange()"
    /\ UNCHANGED <<geometry, ringIdx, improved_ring, improved_rings, todo, improved, inserted>>
    /\ UNCHANGED <<loadVars, landVars, genVars, apiVars>>

\* improved_ring[0] of an empty ring: IndexError
CloseRaise ==
    /\ rpc = "insert"
    /\ todo = 0
    /\ Len(improved_ring) = 0
    /\ rpc' = "raised"
    /\ rexc' = "list index out of range"
    /\ UNCHANGED <<geometry, ringIdx, improved_ring, improved_rings, todo, improved, inserted>>
    /\ UNCHANGED <<loadVars, landVars, genVars, apiVars>>

\* the ring is closed and appended to improved_rings
FinishRing ==
    /\ rpc = "insert"
    /\ todo = 0
    /\ Len(improved_ring) > 0
    /\ improved_rings' = Append(improved_rings, CloseRing(improved_ring))
    /\ ringIdx' = ringIdx + 1
    /\ rpc' = "ring"
    /\ UNCHANGED <<geometry, improved_ring, todo, improved, inserted, rexc>>
    /\ UNCHANGED <<loadVars, landVars, genVars, apiVars>>

\* improved["coordinates"] = improved_rings; return improved
RefineReturn ==
    /\ rpc = "ring"
    /\ ringIdx > Len(geometry.coordinates)
    /\ improved' = [improved EXCEPT !.coordinates = improved_rings]
    /\ rpc' = "returned"
    /\ UNCHANGED <<geometry, ringIdx, improved_ring, improved_rings, todo, inserted, rexc>>
    /\ UNCHANGED <<loadVars, landVars, genVars, apiVars>>

\* the call is over; the next request may come
RefineClear ==
    /\ rpc' = "idle"
    /\ geometry' = [type |-> "Polygon", coordinates |-> <<>>]
    /\ ringIdx' = 0
    /\ improved_ring' = <<>>
    /\ improved_rings' = <<>>
    /\ todo' = 0
    /\ improved' = [type |-> "Polygon", coordinates |-> <<>>]
    /\ inserted' = <<>>
    /\ rexc' = None

RefineReset ==
    /\ rpc \in {"returned", "raised"}
    /\ RefineClear
    /\ UNCHANGED <<loadVars, landVars, genVars, apiVars>>

RefineNext ==
    \/ RefineCall
    \/ RefineRing
    \/ InsertPoint
    \/ InsertRaise
    \/ CloseRaise
    \/ FinishRing
    \/ RefineReturn
    \/ RefineReset


\* ========================================================= detect_land_use
LAND_USE_CATEGORIES ==
    <<"agricultural", "residential", "commercial", "industrial", "forestry",
      "recreational", "conservation", "transportation", "institutional", "mixed_use">>

\* 1.0 in fixed point: confidences and random.random() values are in units of 1/One
One == 1000

\* values of random.random(), in [0, 1)
BranchDraws == {0, 500}
ConfidenceDraws == {0, 999}
PortionDraws == {0, 999}

\* x * c for a float constant c given in units of 1/One
Times(x, c) == (x * c) \div One

Range(s) == {s[i] : i \in DOMAIN s}

\* [c for c in LAND_USE_CATEGORIES if c != primary_category]
Pool_All(primary_category) == LAND_USE_CATEGORIES

Pool(primary_category) ==
    SelectSeq(LAND_USE_CATEGORIES, LAMBDA c : c # primary_category)

\* the outcomes of random.sample(population, k): k distinct positions, in any order
Sample(population, k) ==
    {[i \in 1..k |-> population[p[i]]] :
        p \in {q \in [1..k -> DOMAIN population] :
                  \A i, j \in 1..k : i # j => q[i] # q[j]}}

\* the confidence of alternative i (0-based) of n, given what is left
AltConfidence_NoRemainder(i, n, remaining, portion) == Times(remaining, portion)

AltConfidence(i, n, remaining, portion) ==
    IF i = n - 1 THEN remaining ELSE Times(remaining, portion)

\* one step of a stable sort by confidence, descending: x goes behind every
\* element that is not smaller
InsertDesc_Unstable(sorted, x) ==
    LET before == {j \in 1..Len(sorted) : sorted[j].confidence > x.confidence}
        k == Cardinality(before)
    IN SubSeq(sorted, 1, k) \o <<x>> \o SubSeq(sorted, k + 1, Len(sorted))

InsertDesc(sorted, x) ==
    LET before == {j \in 1..Len(sorted) : sorted[j].confidence >= x.confidence}
        k == Cardinality(before)
    IN SubSeq(sorted, 1, k) \o <<x>> \o SubSeq(sorted, k + 1, Len(sorted))

\* alternatives.sort(key=lambda x: x["confidence"], reverse=True)
RECURSIVE SortDesc(_)
SortDesc(s) ==
    IF s = <<>> THEN <<>>
    ELSE InsertDesc(SortDesc(SubSeq(s, 1, Len(s) - 1)), s[Len(s)])

InitLand ==
    /\ lpc = "idle"
    /\ primary_idx = 0
    /\ viaWeighted = FALSE
    /\ primary_confidence = 0
    /\ alternative_categories = <<>>
    /\ remaining_confidence = 0
    /\ drawn = <<>>
    /\ alternatives = <<>>

\* lines 104-114: the primary category, its confidence, the alternative categories
LandEnter ==
    /\ lpc = "idle"
    /\ \E u \in BranchDraws, r \in 0..(Len(LAND_USE_CATEGORIES) - 1) :
        /\ viaWeighted' = (u < 400)
        /\ primary_idx' = IF u < 400 THEN 0 ELSE r
    /\ \E u \in ConfidenceDraws :
        /\ primary_confidence' = 650 + Times(u, 300)
        /\ remaining_confidence' = One - primary_confidence'
    /\ \E num_alternatives \in 2..4 :
        alternative_categories' \in
            Sample(Pool(LAND_USE_CATEGORIES[primary_idx' + 1]), num_alternatives)
    /\ alternatives' = <<>>
    /\ drawn' = <<>>
    /\ lpc' = "distribute"

\* a call of detect_land_use
LandCall ==
    /\ LandEnter
    /\ UNCHANGED <<loadVars, refineVars, genVars, apiVars>>

\* one iteration of "for i, category in enumerate(alternative_categories)"
Distribute ==
    /\ lpc = "distribute"
    /\ Len(alternatives) < Len(alternative_categories)
    /\ LET i == Len(alternatives)
           n == Len(alternative_categories)
       IN \E u \in (IF i = n - 1 THEN {0} ELSE PortionDraws) :
            LET confidence == AltConfidence(i, n, remaining_confidence, Times(u, 700))
            IN /\ alternatives' = Append(alternatives,
                      [landUse |-> alternative_categories[i + 1], confidence |-> confidence])
               /\ remaining_confidence' =
                      IF i = n - 1 THEN remaining_confidence
                      ELSE remaining_confidence - confidence
    /\ UNCHANGED <<lpc, primary_idx, viaWeighted, primary_confidence,
                   alternative_categories, drawn>>
    /\ UNCHANGED <<loadVars, refineVars, genVars, apiVars>>

\* the sort and the return; drawn keeps the list as it was before the sort
SortReturn ==
    /\ lpc = "distribute"
    /\ Len(alternatives) = Len(alternative_categories)
    /\ drawn' = alternatives
    /\ alternatives' = SortDesc(alternatives)
    /\ lpc' = "returned"
    /\ UNCHANGED <<primary_idx, viaWeighted, primary_confidence,
                   alternative_categories, remaining_confidence>>
    /\ UNCHANGED <<loadVars, refineVars, genVars, apiVars>>

LandClear ==
    /\ lpc' = "idle"
    /\ primary_idx' = 0
    /\ viaWeighted' = FALSE
    /\ primary_confidence' = 0
    /\ alternative_categories' = <<>>
    /\ remaining_confidence' = 0
    /\ drawn' = <<>>
    /\ alternatives' = <<>>

LandReset ==
    /\ lpc = "returned"
    /\ LandClear
    /\ UNCHANGED <<loadVars, refineVars, genVars, apiVars>>

LandNext ==
    \/ LandCall
    \/ Distribute
    \/ SortReturn
    \/ LandReset

\* ============================================== generate_realistic_polygon
\* num_points = random.randint(6, 10)
MinVertices == 6
MaxVertices == 10

Radii == {0, 500}
\* the direction of a vertex seen from the centre, after angle, radius factor and noise
Directions == {<<1, 0>>, <<0, 1>>}

\* [lon, lat] of a vertex: the centre (the origin) plus the radius along the direction
Vertex(r, d) == <<d[1] * (r \div 100), d[2] * (r \div 100)>>

\* coords.append(coords[0].copy())
ClosePolygon_NoCopy(c) == c

ClosePolygon(c) == Append(c, c[1])

InitGen ==
    /\ gpc = "idle"
    /\ radius_m = 0
    /\ num_points = 0
    /\ coords = <<>>
    /\ polygon = [type |-> "Polygon", coordinates |-> <<>>]

\* generate_realistic_polygon is entered with radius r
GenEnter(r) ==
    /\ gpc = "idle"
    /\ radius_m' = r
    /\ num_points' \in MinVertices..MaxVertices
    /\ coords' = <<>>
    /\ gpc' = "vertex"
    /\ UNCHANGED polygon

\* a call of generate_realistic_polygon with any radius
GenCall ==
    /\ gpc = "idle"
    /\ \E r \in Radii : GenEnter(r)
    /\ UNCHANGED <<loadVars, refineVars, landVars, apiVars>>

\* one iteration of "for i in range(num_points)"
GenVertex ==
    /\ gpc = "vertex"
    /\ Len(coords) < num_points
    /\ \E d \in Directions : coords' = Append(coords, Vertex(radius_m, d))
    /\ UNCHANGED <<gpc, radius_m, num_points, polygon>>
    /\ UNCHANGED <<loadVars, refineVars, landVars, apiVars>>

\* the ring is closed and the geometry returned
GenReturn ==
    /\ gpc = "vertex"
    /\ Len(coords) = num_points
    /\ coords' = ClosePolygon(coords)
    /\ polygon' = [type |-> "Polygon", coordinates |-> <<coords'>>]
    /\ gpc' = "returned"
    /\ UNCHANGED <<radius_m, num_points>>
    /\ UNCHANGED <<loadVars, refineVars, landVars, apiVars>>

GenClear ==
    /\ gpc' = "idle"
    /\ radius_m' = 0
    /\ num_points' = 0
    /\ coords' = <<>>
    /\ polygon' = [type |-> "Polygon", coordinates |-> <<>>]

GenReset ==
    /\ gpc = "returned"
    /\ GenClear
    /\ UNCHANGED <<loadVars, refineVars, landVars, apiVars>>

GenNext ==
    \/ GenCall
    \/ GenVertex
    \/ GenReturn
    \/ GenReset

\* ================================================================= the API
\* One request at a time: the handlers are coroutines that never await, so
\* the event loop runs each of them to its end.
Ops == {"detect-boundary", "improve-boundary", "detect-land-use"}

\* the module whose load_model the operation calls
KindOf(o) == IF o = "detect-land-use" THEN "land_use" ELSE "boundary"

\* the text in front of str(e) in the detail of the HTTPException
Prefix(o) ==
    CASE o = "detect-boundary" -> "Boundary detection failed"
      [] o = "improve-boundary" -> "Boundary improvement failed"
      [] o = "detect-land-use" -> "Land use detection failed"

ApiGeometry == [type : Types, coordinates : CoordinateSet(MaxRings, MaxApiPoints)]

\* detect_land_use reads nothing of the geometry but its type, for the log
LandGeometry ==
    {[type |-> "Polygon", coordinates |-> << <<<<0, 0>>, <<4, 2>>, <<0, 0>>>> >>]}

\* BoundaryDetectionRequest, BoundaryImprovementRequest, LandUseRequest
Requests(o) ==
    CASE o = "detect-boundary" -> {[radius |-> r] : r \in Radii}
      [] o = "improve-boundary" -> {[geometry |-> g] : g \in ApiGeometry}
      [] o = "detect-land-use" -> {[geometry |-> g] : g \in LandGeometry}

\* improve_existing_boundary, lines 112-128: the exception of the centre
\* computation, None if there is none
CenterError(g) ==
    IF ~IsPolygon(g) THEN None
    ELSE IF Len(g.coordinates) = 0 THEN "list index out of range"
    ELSE IF Len(g.coordinates[1]) = 0 THEN "division by zero"
    ELSE None

\* raise HTTPException(status_code=500, detail=f"... failed: {str(e)}")
Failure(o, e) == [kind |-> "failure", status |-> 500, detail |-> <<Prefix(o), e>>]

InitApi ==
    /\ apc = "idle"
    /\ op = None
    /\ request = None
    /\ exc = None
    /\ responses = <<>>

\* a request arrives and its handler enters the try block
ApiRequest ==
    /\ apc = "idle"
    /\ \E o \in Ops :
        /\ op' = o
        /\ request' \in Requests(o)
    /\ exc' = None
    /\ responses' = <<>>
    /\ apc' = "load"
    /\ UNCHANGED <<loadVars, refineVars, landVars, genVars>>

\* load_model() of the operation's module, run to its end
ApiLoad ==
    /\ apc = "load"
    /\ LET k == KindOf(op) IN
        IF MODEL_LOADED[k]
        THEN UNCHANGED <<MODEL, MODEL_LOADED, loads>>
        ELSE /\ MODEL' = [MODEL EXCEPT ![k] = "simulation"]
             /\ MODEL_LOADED' = [MODEL_LOADED EXCEPT ![k] = TRUE]
             /\ loads' = [loads EXCEPT ![k] = @ + 1]
    /\ apc' = IF op = "improve-boundary" THEN "center" ELSE "fetch"
    /\ UNCHANGED <<pc, kind, fails, op, request, exc, responses>>
    /\ UNCHANGED <<refineVars, landVars, genVars>>

\* the load operation raises
ApiLoadRaise ==
    /\ apc = "load"
    /\ ~MODEL_LOADED[KindOf(op)]
    /\ exc' = "model load failed"
    /\ apc' = "except"
    /\ UNCHANGED <<op, request, responses>>
    /\ UNCHANGED <<loadVars, refineVars, landVars, genVars>>

\* improve_existing_boundary: centre and radius of the first ring
ApiCenter ==
    /\ apc = "center"
    /\ CenterError(request.geometry) = None
    /\ apc' = "fetch"
    /\ UNCHANGED <<op, request, exc, responses>>
    /\ UNCHANGED <<loadVars, refineVars, landVars, genVars>>

\* no first ring (IndexError) or an empty first ring (ZeroDivisionError)
ApiCenterRaise ==
    /\ apc = "center"
    /\ CenterError(request.geometry) # None
    /\ exc' = CenterError(request.geometry)
    /\ apc' = "except"
    /\ UNCHANGED <<op, request, responses>>
    /\ UNCHANGED <<loadVars, refineVars, landVars, genVars>>

\* get_satellite_imagery / get_imagery_for_geometry returns
ApiFetch ==
    /\ apc = "fetch"
    /\ apc' = "invoke"
    /\ UNCHANGED <<op, request, exc, responses>>
    /\ UNCHANGED <<loadVars, refineVars, landVars, genVars>>

\* the imagery provider raises
ApiFetchRaise ==
    /\ apc = "fetch"
    /\ exc' = "imagery fetch failed"
    /\ apc' = "except"
    /\ UNCHANGED <<op, request, responses>>
    /\ UNCHANGED <<loadVars, refineVars, landVars, genVars>>

\* detect_boundaries_from_coords calls generate_realistic_polygon
ApiSynthesize ==
    /\ apc = "invoke"
    /\ op = "detect-boundary"
    /\ GenEnter(request.radius)
    /\ apc' = "running"
    /\ UNCHANGED <<op, request, exc, responses>>
    /\ UNCHANGED <<loadVars, refineVars, landVars>>

\* improve_existing_boundary calls refine_polygon
ApiRefine ==
    /\ apc = "invoke"
    /\ op = "improve-boundary"
    /\ RefineEnter(request.geometry)
    /\ apc' = "running"
    /\ UNCHANGED <<op, request, exc, responses>>
    /\ UNCHANGED <<loadVars, landVars, genVars>>

\* detect_land_use goes on to the scoring
ApiScore ==
    /\ apc = "invoke"
    /\ op = "detect-land-use"
    /\ LandEnter
    /\ apc' = "running"
    /\ UNCHANGED <<op, request, exc, responses>>
    /\ UNCHANGED <<loadVars, refineVars, genVars>>

\* detect_boundary returns geometry and confidence
ApiBoundaryResult ==
    /\ apc = "running"
    /\ gpc = "returned"
    /\ \E u \in ConfidenceDraws :
        responses' = Append(responses,
            [kind |-> "result", geometry |-> polygon, confidence |-> 750 + Times(u, 200)])
    /\ GenClear
    /\ apc' = "done"
    /\ UNCHANGED <<op, request, exc>>
    /\ UNCHANGED <<loadVars, refineVars, landVars>>

\* improve_boundary returns geometry and confidence
ApiImprovedResult ==
    /\ apc = "running"
    /\ rpc = "returned"
    /\ \E u \in ConfidenceDraws :
        responses' = Append(responses,
            [kind |-> "result", geometry |-> improved, confidence |-> 850 + Times(u, 140)])
    /\ RefineClear
    /\ apc' = "done"
    /\ UNCHANGED <<op, request, exc>>
    /\ UNCHANGED <<loadVars, landVars, genVars>>

\* analyze_land_use returns landUse, confidence and alternatives
ApiLandUseResult ==
    /\ apc = "running"
    /\ lpc = "returned"
    /\ responses' = Append(responses,
            [kind |-> "result", landUse |-> LAND_USE_CATEGORIES[primary_idx + 1],
             confidence |-> primary_confidence, alternatives |-> alternatives])
    /\ LandClear
    /\ apc' = "done"
    /\ UNCHANGED <<op, request, exc>>
    /\ UNCHANGED <<loadVars, refineVars, genVars>>

\* refine_polygon has raised; the exception reaches the handler
ApiRefineRaised ==
    /\ apc = "running"
    /\ rpc = "raised"
    /\ exc' = rexc
    /\ RefineClear
    /\ apc' = "except"
    /\ UNCHANGED <<op, request, responses>>
    /\ UNCHANGED <<loadVars, landVars, genVars>>

\* except Exception as e: raise HTTPException(500, ...)
ApiExcept_PartialResult ==
    /\ apc = "except"
    /\ responses' = Append(responses, [kind |-> "result", geometry |-> None, confidence |-> 0])
    /\ apc' = "done"
    /\ UNCHANGED <<op, request, exc>>
    /\ UNCHANGED <<loadVars, refineVars, landVars, genVars>>

ApiExcept ==
    /\ apc = "except"
    /\ responses' = Append(responses, Failure(op, exc))
    /\ apc' = "done"
    /\ UNCHANGED <<op, request, exc>>
    /\ UNCHANGED <<loadVars, refineVars, landVars, genVars>>

\* the response is sent; the next request may come
ApiDone ==
    /\ apc = "done"
    /\ apc' = "idle"
    /\ op' = None
    /\ request' = None
    /\ exc' = None
    /\ responses' = <<>>
    /\ UNCHANGED <<loadVars, refineVars, landVars, genVars>>

ApiNext ==
    \/ ApiRequest
    \/ ApiLoad
    \/ ApiLoadRaise
    \/ ApiCenter
    \/ ApiCenterRaise
    \/ ApiFetch
    \/ ApiFetchRaise
    \/ ApiSynthesize
    \/ GenVertex
    \/ GenReturn
    \/ ApiBoundaryResult
    \/ ApiRefine
    \/ RefineRing
    \/ InsertPoint
    \/ InsertRaise
    \/ CloseRaise
    \/ FinishRing
    \/ RefineReturn
    \/ ApiImprovedResult
    \/ ApiRefineRaised
    \/ ApiScore
    \/ Distribute
    \/ SortReturn
    \/ ApiLandUseResult
    \/ ApiExcept
    \/ ApiDone

\* ========================================================== specifications
Init == InitLoad /\ InitRefine /\ InitLand /\ InitGen /\ InitApi

\* concurrent requests on the model handles
SpecLoad == Init /\ [][LoadNext]_vars
\* calls of refine_polygon
SpecRefine == Init /\ [][RefineNext]_vars
\* calls of detect_land_use
SpecLand == Init /\ [][LandNext]_vars
\* calls of generate_realistic_polygon
SpecGen == Init /\ [][GenNext]_vars
\* requests to the three operations of the API, one after the other
SpecApi == Init /\ [][ApiNext]_vars


\* ================================================================== claims

\* ---- model handle
\* C1: concurrent first requests for one kind perform the load operation at
\* most once, and a handle marked loaded always has its model set.
C1_LoadAtMostOnce ==
    \A k \in Kinds : loads[k] <= 1 /\ (MODEL_LOADED[k] => MODEL[k] # None)

\* C2: a load that raises leaves MODEL and MODEL_LOADED as they were, so an
\* Unloaded handle stays Unloaded and the next check goes on to load again;
\* in every state MODEL_LOADED implies that MODEL is set.
C2_FailedLoadStaysUnloaded ==
    /\ [](\A k \in Kinds : MODEL_LOADED[k] => MODEL[k] # None)
    /\ [][\A t \in Threads :
            /\ (pc[t] = "loading" /\ pc'[t] = "failed")
                  => (MODEL_LOADED' = MODEL_LOADED /\ MODEL' = MODEL)
            /\ (pc[t] = "check" /\ ~MODEL_LOADED[kind[t]] /\ pc'[t] # "check")
                  => pc'[t] = "loading"]_vars

\* a load has failed and its handle is still Unloaded, with no model set
C2_Witness ==
    \E t \in Threads :
        pc[t] = "failed" /\ ~MODEL_LOADED[kind[t]] /\ MODEL[kind[t]] = None

\* C3: MODEL_LOADED never goes back from True to False, and a call that finds
\* the handle Loaded returns at once: no load, MODEL and MODEL_LOADED unchanged.
C3_LoadedIsFinal ==
    [][/\ \A k \in Kinds : MODEL_LOADED[k] => MODEL_LOADED'[k]
       /\ \A t \in Threads :
            (pc[t] = "check" /\ MODEL_LOADED[kind[t]] /\ pc'[t] # "check")
               => /\ pc'[t] = "noop"
                  /\ MODEL' = MODEL
                  /\ MODEL_LOADED' = MODEL_LOADED
                  /\ loads' = loads]_vars

\* a call has returned at line 29 from a handle that was loaded once
C3_Witness ==
    \E t \in Threads :
        pc[t] = "noop" /\ MODEL_LOADED[kind[t]] /\ loads[kind[t]] = 1

\* ---- refine_polygon
Unclosed(ring) == Len(ring) > 0 /\ ring[1] # ring[Len(ring)]

\* C4: on return from a Polygon input every output ring is closed.
C4_RingsClosed ==
    (rpc = "returned" /\ geometry.type = "Polygon")
       => \A r \in DOMAIN improved.coordinates :
            LET ring == improved.coordinates[r]
            IN Len(ring) > 0 /\ ring[1] = ring[Len(ring)]

\* an unclosed input ring came back with two inserted points and the closing point
C4_Witness ==
    /\ rpc = "returned"
    /\ geometry.type = "Polygon"
    /\ \E r \in DOMAIN geometry.coordinates :
        /\ Unclosed(geometry.coordinates[r])
        /\ Len(improved.coordinates[r]) = Len(geometry.coordinates[r]) + 3

\* C5 (as claimed): every ring after the first comes back identical to the input ring.
C5_HolesUnchanged ==
    (rpc = "returned" /\ geometry.type = "Polygon")
       => \A r \in 2..Len(geometry.coordinates) :
            improved.coordinates[r] = geometry.coordinates[r]

\* C5 (amended): hole rings are refined like the exterior ring: the output has
\* the rings of the input in the same number and order, and every hole ring
\* keeps its first point and gets at most three more points (two inserted
\* and the closing one); its other points may move.
C5_HolesRefinedLikeExterior ==
    (rpc = "returned" /\ geometry.type = "Polygon")
       => /\ Len(improved.coordinates) = Len(geometry.coordinates)
          /\ \A r \in 2..Len(geometry.coordinates) :
                LET in == geometry.coordinates[r]
                    out == improved.coordinates[r]
                IN /\ out[1] = in[1]
                   /\ Len(in) <= Len(out)
                   /\ Len(out) <= Len(in) + 3

\* a hole ring came back changed
C5_Witness ==
    /\ rpc = "returned"
    /\ geometry.type = "Polygon"
    /\ Len(geometry.coordinates) = 2
    /\ improved.coordinates[2] # geometry.coordinates[2]

\* C6: a geometry that is not a Polygon is returned at once, without an
\* error, with the same type and the same coordinates.
C6_NonPolygonPassThrough ==
    geometry.type # "Polygon"
       => /\ rpc = "returned"
          /\ improved.type = geometry.type
          /\ improved.coordinates = geometry.coordinates

\* a non-Polygon with a ring that has interior points went through
C6_Witness ==
    /\ rpc = "returned"
    /\ geometry.type # "Polygon"
    /\ \E r \in DOMAIN improved.coordinates : Len(improved.coordinates[r]) >= 4

\* ---- detect_land_use
RECURSIVE SumConfidence(_)
SumConfidence(s) ==
    IF s = <<>> THEN 0 ELSE s[1].confidence + SumConfidence(Tail(s))

\* C7: the primary confidence and the alternatives' confidences add up to
\* 1.0, no confidence is negative; during the loop what is assigned and what
\* remains add up to 1.0, and the last alternative gets what remains.
C7_MassConserved ==
    LET n == Len(alternative_categories)
        done == Len(alternatives) = n
    IN lpc \in {"distribute", "returned"}
        => /\ \A i \in DOMAIN alternatives : alternatives[i].confidence >= 0
           /\ remaining_confidence >= 0
           /\ ~done => primary_confidence + SumConfidence(alternatives)
                          + remaining_confidence = One
           /\ done => primary_confidence + SumConfidence(alternatives) = One
           /\ (done /\ lpc = "distribute")
                 => alternatives[n].confidence = remaining_confidence

\* a result with four alternatives, each with some of the mass
C7_Witness ==
    /\ lpc = "returned"
    /\ Len(alternatives) = 4
    /\ \A i \in DOMAIN alternatives : alternatives[i].confidence > 0

\* C8: a result has 2, 3 or 4 alternatives, with pairwise distinct labels out
\* of the category list, none of them the primary label.
C8_AlternativesExcludePrimary ==
    lpc = "returned"
       => /\ Len(alternatives) \in 2..4
          /\ \A i, j \in DOMAIN alternatives :
                i # j => alternatives[i].landUse # alternatives[j].landUse
          /\ \A i \in DOMAIN alternatives :
                /\ alternatives[i].landUse \in Range(LAND_USE_CATEGORIES)
                /\ alternatives[i].landUse # LAND_USE_CATEGORIES[primary_idx + 1]

\* "agricultural" came out of the uniform draw, with four alternatives
C8_Witness ==
    /\ lpc = "returned"
    /\ primary_idx = 0
    /\ ~viaWeighted
    /\ Len(alternatives) = 4

\* C9: the returned alternatives are the drawn ones in another order, by
\* confidence descending, equal confidences in the order of the draw.
C9_SortedStable ==
    lpc = "returned"
       => LET n == Len(drawn) IN
          /\ Len(alternatives) = n
          /\ \A i \in 1..(n - 1) :
                alternatives[i].confidence >= alternatives[i + 1].confidence
          /\ \E p \in [1..n -> 1..n] :
                /\ \A i, j \in 1..n : i # j => p[i] # p[j]
                /\ \A i \in 1..n : alternatives[i] = drawn[p[i]]
                /\ \A i, j \in 1..n :
                      (i < j /\ alternatives[i].confidence = alternatives[j].confidence)
                         => p[i] < p[j]

\* the sort moved something, and two alternatives have the same confidence
C9_Witness ==
    /\ lpc = "returned"
    /\ alternatives # drawn
    /\ \E i, j \in DOMAIN alternatives :
          i # j /\ alternatives[i].confidence = alternatives[j].confidence

\* ---- generate_realistic_polygon
\* C10: the result is a Polygon with one ring of num_points + 1 points,
\* num_points in 6..10, whose first and last points are equal.
C10_SynthesizedRing ==
    gpc = "returned"
       => /\ polygon.type = "Polygon"
          /\ Len(polygon.coordinates) = 1
          /\ num_points \in 6..10
          /\ LET ring == polygon.coordinates[1]
             IN /\ Len(ring) = num_points + 1
                /\ Len(ring) \in 7..11
                /\ ring[1] = ring[Len(ring)]

\* a ring of ten vertices, not all at one place
C10_Witness ==
    /\ gpc = "returned"
    /\ num_points = 10
    /\ \E i \in DOMAIN coords : coords[i] # coords[1]


\* ---- refine_polygon, continued
\* C11: on return from a Polygon input the output has the rings of the input,
\* and no output ring is shorter than its input ring.
C11_NoPointRemoved ==
    (rpc = "returned" /\ geometry.type = "Polygon")
       => /\ Len(improved.coordinates) = Len(geometry.coordinates)
          /\ \A r \in DOMAIN geometry.coordinates :
                Len(improved.coordinates[r]) >= Len(geometry.coordinates[r])

\* a closed ring with interior points came back with no point added
C11_Witness ==
    /\ rpc = "returned"
    /\ geometry.type = "Polygon"
    /\ \E r \in DOMAIN geometry.coordinates :
        /\ Len(geometry.coordinates[r]) >= 4
        /\ Len(improved.coordinates[r]) = Len(geometry.coordinates[r])

\* the ring r of the output as far as it is built
RingSoFar(r) == IF r <= Len(improved_rings) THEN improved_rings[r] ELSE improved_ring

\* C13: for a ring of at least 4 points, the first and the last point of the
\* input are in the output as they were (the last one behind the inserted
\* points), and the k-th inserted point lands at an index greater than 0 and
\* smaller than the index of the closing point of the ring it is inserted in.
C13_EndsKeptInsertsInside ==
    rpc \in {"insert", "ring", "returned"}
       => \A r \in DOMAIN inserted :
            LET in == geometry.coordinates[r]
                n == Len(in)
                out == RingSoFar(r)
            IN n >= 4
                 => /\ out[1] = in[1]
                    /\ out[n + Len(inserted[r])] = in[n]
                    /\ \A k \in DOMAIN inserted[r] :
                          inserted[r][k] > 0 /\ inserted[r][k] < n + k - 1

\* two points were inserted in a ring of at least 4 points, the second at
\* the last index before the closing point, which the first insertion made
C13_Witness ==
    /\ rpc = "returned"
    /\ \E r \in DOMAIN inserted :
        /\ Len(geometry.coordinates[r]) >= 4
        /\ Len(inserted[r]) = 2
        /\ inserted[r][2] = Len(geometry.coordinates[r])


\* ---- the API
ResultFields == {"geometry", "confidence", "landUse", "alternatives"}

\* C12: a request gets one response. Once a component call has raised (exc
\* is the exception), no result has been or is produced: the response is the
\* failure with the operation's text and the message of the exception, and
\* it has no geometry, confidence or alternatives.
C12_OneFailureNoPartialResult ==
    /\ Len(responses) <= 1
    /\ apc = "done" => Len(responses) = 1
    /\ (rpc = "raised" \/ apc = "except") => responses = <<>>
    /\ apc = "except" => exc # None
    /\ exc # None
         => \A i \in DOMAIN responses :
               /\ responses[i] = Failure(op, exc)
               /\ DOMAIN responses[i] \cap ResultFields = {}
    /\ \A i \in DOMAIN responses :
          responses[i].kind = "failure" => exc # None /\ responses[i].detail[2] = exc

\* improve-boundary of a ring too short for an insertion has failed with
\* the message of the ValueError
C12_Witness ==
    /\ apc = "done"
    /\ op = "improve-boundary"
    /\ exc = "empty range for randrange()"
    /\ responses = <<Failure(op, exc)>>

====
